---- MODULE Spec2Model ----
(***************************************************************************)
(* ActionOrderManagerV2 (src/src/js/action-order-manager-v2.js): the       *)
(* turn-order engine of the poker hand logger.  The engine is one object   *)
(* (window.actionOrderManager); its fields are the variables below and     *)
(* each of its methods is one action (a method that changes a field) or    *)
(* one operator over the fields (a method that only reads them).           *)
(***************************************************************************)
EXTENDS Integers, Sequences, FiniteSets, TLC

VARIABLES
    handNumber,          \* this.handNumber: null or the hand id
    buttonPosition,      \* this.buttonPosition: a seat number
    absoluteOrder,       \* this.absoluteOrder: [preflop, postflop], two slot sequences
    currentStreet,       \* this.currentStreet
    currentActionIndex,  \* this.currentActionIndex: one cursor per street key
    playerStatus,        \* this.playerStatus: player name -> status
    ret,                 \* the value returned by the last method call
    acting,              \* the caller's note of the player whose action it is processing
    actionManager,       \* window.actionManager: the compatibility object, null until it is made
    sheet,               \* the rows of the Type sheet, the header first
    playerCache          \* the PlayerIndexCache instance of the Apps Script backend

vars == <<handNumber, buttonPosition, absoluteOrder, currentStreet,
          currentActionIndex, playerStatus, ret, acting,
          actionManager, sheet, playerCache>>

\* the state outside the engine and its caller
outside == <<actionManager, sheet, playerCache>>

----------------------------------------------------------------------------
(* Bounds of the model.                                                    *)

\* seats 1..MaxSeat can be occupied in the order-building specification
MaxSeat == 9
\* seats 1..TableSize can be occupied in the full engine specification
TableSize == 3
\* the cursors of one hand add up to at most MaxMoves
MaxMoves == 2
\* an action log handed to isBettingRoundComplete has at most MaxActions entries
MaxActions == 2
\* seats 1..QuerySeats can be occupied in the query specification
QuerySeats == 2
\* the Type sheet holds at most MaxRows rows under its header before a row is added
MaxRows == 3

----------------------------------------------------------------------------
(* JavaScript values.  A value that can be null, undefined or NaN is kept  *)
(* boxed so that it compares with every other value.                       *)

Null == [type |-> "null"]
Undefined == [type |-> "undefined"]
NaN == [type |-> "NaN"]
Num(n) == [type |-> "number", value |-> n]
Str(s) == [type |-> "string", value |-> s]
\* `return this` of initializeHand
This == [type |-> "this"]
\* no method has been called yet
NoCall == [type |-> "nocall"]

\* an array and a boolean as a returned value
Arr(seq) == [type |-> "array", value |-> seq]
Bool(b) == [type |-> "boolean", value |-> b]

IsArr(v) == "value" \in DOMAIN v /\ v.type = "array"
IsBool(v) == "value" \in DOMAIN v /\ v.type = "boolean"

IsNum(v) == v.type = "number"

\* an entry of an order table
IsSlot(v) == "player" \in DOMAIN v

----------------------------------------------------------------------------
(* The inputs.  The player sitting at seat s is PlayerNames[s]; the names  *)
(* are not in seat order.  A hand is dealt to the players of a set of      *)
(* seats, handed over as an array in descending seat order.                *)

PlayerNames == <<"Cho", "Ann", "Dee", "Bob", "Eve", "Abe", "Gus", "Fay", "Ian", "Hal">>

SeatOf(name) == CHOOSE s \in 1..Len(PlayerNames) : PlayerNames[s] = name

Player(seat) == [name |-> PlayerNames[seat], seat |-> seat]

SetMax(S) == CHOOSE x \in S : \A y \in S : y <= x
SetMin(S) == CHOOSE x \in S : \A y \in S : x <= y

RECURSIVE Roster(_)
Roster(seats) ==
    IF seats = {} THEN <<>>
    ELSE <<Player(SetMax(seats))>> \o Roster(seats \ {SetMax(seats)})

\* the seat sets a hand can be dealt to: at least two players
Hands(maxSeat) == {S \in SUBSET (1..maxSeat) : Cardinality(S) >= 2}

HandIds == {"H1", "H2"}
Streets == {"preflop", "flop", "turn", "river"}
\* a street value outside the four streets
OtherStreet == "showdown"
StreetKeys == Streets \cup {OtherStreet}
Statuses == {"active", "folded", "allin"}

----------------------------------------------------------------------------
(* createPreflopOrder / createPostflopOrder                                *)

\* seatMap: seat -> player, a later player of the same seat replacing an earlier one
SeatMap(players) ==
    [s \in {players[k].seat : k \in 1..Len(players)} |->
        players[SetMax({k \in 1..Len(players) : players[k].seat = s})]]

\* Array.from(seatMap.keys()).sort((a, b) => a - b)
RECURSIVE SortAscending(_)
SortAscending(S) ==
    IF S = {} THEN <<>>
    ELSE <<SetMin(S)>> \o SortAscending(S \ {SetMin(S)})

\* Array.prototype.indexOf, 0-based, -1 when absent
\* IndexOf that answers 0 for an element that is absent
IndexOf_NeverAbsent(seq, x) ==
    IF \E k \in 1..Len(seq) : seq[k] = x
    THEN SetMin({k \in 1..Len(seq) : seq[k] = x}) - 1
    ELSE 0

IndexOf(seq, x) ==
    IF \E k \in 1..Len(seq) : seq[k] = x
    THEN SetMin({k \in 1..Len(seq) : seq[k] = x}) - 1
    ELSE -1

\* PositionLabel with the BTN test moved in front of the BB test
PositionLabel_ButtonFirst(i, totalPlayers) ==
    IF i = 0 THEN "SB"
    ELSE IF i = totalPlayers - 1 THEN "BTN"
    ELSE IF i = 1 THEN "BB"
    ELSE IF i = 2 THEN "UTG"
    ELSE IF i = 3 THEN "UTG+1"
    ELSE IF i = 4 THEN "MP1"
    ELSE IF i = 5 THEN "MP2"
    ELSE IF i = totalPlayers - 2 THEN "CO"
    ELSE "MP" \o ToString(i - 2)

\* PositionLabel with the CO test moved in front of the UTG test
PositionLabel_CutoffFirst(i, totalPlayers) ==
    IF i = 0 THEN "SB"
    ELSE IF i = 1 THEN "BB"
    ELSE IF i = totalPlayers - 1 THEN "BTN"
    ELSE IF i = totalPlayers - 2 THEN "CO"
    ELSE IF i = 2 THEN "UTG"
    ELSE IF i = 3 THEN "UTG+1"
    ELSE IF i = 4 THEN "MP1"
    ELSE IF i = 5 THEN "MP2"
    ELSE "MP" \o ToString(i - 2)

\* the label of relative index i among totalPlayers players
PositionLabel(i, totalPlayers) ==
    IF i = 0 THEN "SB"
    ELSE IF i = 1 THEN "BB"
    ELSE IF i = totalPlayers - 1 THEN "BTN"
    ELSE IF i = 2 THEN "UTG"
    ELSE IF i = 3 THEN "UTG+1"
    ELSE IF i = 4 THEN "MP1"
    ELSE IF i = 5 THEN "MP2"
    ELSE IF i = totalPlayers - 2 THEN "CO"
    ELSE "MP" \o ToString(i - 2)

\* Positions with the rotation started at the button instead of the seat after it
Positions_FromButton(seatMap, occupiedSeats, btnIndex) ==
    LET totalPlayers == Len(occupiedSeats)
    IN [k \in 1..totalPlayers |->
           LET i == k - 1
               seatIndex == (btnIndex + i) % totalPlayers
               seat == occupiedSeats[seatIndex + 1]
           IN [player |-> seatMap[seat], seat |-> seat,
               position |-> PositionLabel(i, totalPlayers), index |-> i]]

\* the positions array of createPreflopOrder; positions[i] is Positions(..)[i + 1]
Positions(seatMap, occupiedSeats, btnIndex) ==
    LET totalPlayers == Len(occupiedSeats)
    IN [k \in 1..totalPlayers |->
           LET i == k - 1
               seatIndex == (btnIndex + i + 1) % totalPlayers
               seat == occupiedSeats[seatIndex + 1]
           IN [player |-> seatMap[seat], seat |-> seat,
               position |-> PositionLabel(i, totalPlayers), index |-> i]]

\* Push with the priority counted from 1
Push_OneBased(order, name, seat, position) ==
    Append(order, [player |-> name, seat |-> seat, position |-> position,
                   priority |-> Len(order) + 1])

\* order.push({player, seat, position, priority: order.length})
Push(order, name, seat, position) ==
    Append(order, [player |-> name, seat |-> seat, position |-> position,
                   priority |-> Len(order)])

\* for (let i = 2; i < totalPlayers; i++) order.push(positions[i])
RECURSIVE PreflopLoop(_, _, _)
PreflopLoop(order, positions, i) ==
    IF i < Len(positions)
    THEN PreflopLoop(Push(order, positions[i + 1].player.name, positions[i + 1].seat,
                          positions[i + 1].position),
                     positions, i + 1)
    ELSE order

\* createPreflopOrder with SB and BB pushed before the players from UTG on
createPreflopOrder_BlindsFirst(players, button) ==
    LET seatMap == SeatMap(players)
        occupiedSeats == SortAscending(DOMAIN seatMap)
        btnIndex == IndexOf(occupiedSeats, button)
        positions == Positions(seatMap, occupiedSeats, btnIndex)
        withSB == Push(<<>>, positions[1].player.name, positions[1].seat, "SB")
        withBB == Push(withSB, positions[2].player.name, positions[2].seat, "BB")
    IN IF btnIndex = -1 THEN <<>>
       ELSE PreflopLoop(withBB, positions, 2)

createPreflopOrder(players, button) ==
    LET seatMap == SeatMap(players)
        occupiedSeats == SortAscending(DOMAIN seatMap)
        btnIndex == IndexOf(occupiedSeats, button)
        positions == Positions(seatMap, occupiedSeats, btnIndex)
        fromUTG == PreflopLoop(<<>>, positions, 2)
        withSB == Push(fromUTG, positions[1].player.name, positions[1].seat, "SB")
    IN IF btnIndex = -1 THEN <<>>
       ELSE Push(withSB, positions[2].player.name, positions[2].seat, "BB")

createPostflopOrder(players, button) ==
    LET seatMap == SeatMap(players)
        occupiedSeats == SortAscending(DOMAIN seatMap)
        totalPlayers == Len(occupiedSeats)
        btnIndex == IndexOf(occupiedSeats, button)
    IN IF btnIndex = -1 THEN <<>>
       ELSE [k \in 1..totalPlayers |->
               LET i == k - 1
                   seatIndex == (btnIndex + i + 1) % totalPlayers
                   seat == occupiedSeats[seatIndex + 1]
               IN [player |-> seatMap[seat].name, seat |-> seat,
                   position |-> PositionLabel(i, totalPlayers), priority |-> i]]

----------------------------------------------------------------------------
(* The Apps Script backend (apps-script/Code_v66_InOut_Optimized.gs): the  *)
(* values of the Type sheet and the PlayerIndexCache.  A cell is a boxed   *)
(* value; a row is the array of its cells; the sheet is the array of its   *)
(* rows with the header first, so that the row number of sheet[i] is i.    *)

TYPE_COLUMNS == [PLAYER |-> 0, TABLE |-> 1, NOTABLE |-> 2, CHIPS |-> 3,
                 UPDATED_AT |-> 4, SEAT |-> 5, STATUS |-> 6]

RANGE_COLUMNS == [PLAYER |-> 1, TABLE |-> 2, NOTABLE |-> 3, CHIPS |-> 4,
                  UPDATED_AT |-> 5, SEAT |-> 6, STATUS |-> 7]

\* a Date cell, t its getTime()
Date(t) == [type |-> "date", value |-> t]

TypeHeader == <<Str("Player"), Str("Table"), Str("Notable"), Str("Chips"),
                Str("UpdatedAt"), Str("Seat"), Str("Status")>>

\* the truthiness of a cell: '' and 0 are falsy
Truthy(v) == v # Str("") /\ v # Num(0) /\ v # Undefined /\ v # Null

\* the text of a cell inside a template literal
ToText(v) ==
    IF v.type = "string" THEN v.value
    ELSE IF v.type = "number" THEN ToString(v.value)
    ELSE v.type

\* a.updatedAt ? new Date(a.updatedAt).getTime() : 0, for a Date, a number or ''
TimeOf(v) == IF Truthy(v) /\ v.type \in {"date", "number"} THEN v.value ELSE 0

\* sheet.getDataRange().getValues(): every row as wide as the widest, '' in the gaps
Width(rows) == IF rows = <<>> THEN 0 ELSE SetMax({Len(rows[i]) : i \in 1..Len(rows)})

getValues(rows) ==
    [i \in 1..Len(rows) |->
        [c \in 1..Width(rows) |-> IF c <= Len(rows[i]) THEN rows[i][c] ELSE Str("")]]

\* data[i][column] for the row of number `row` and a 0-based column
Cell(data, row, column) ==
    IF column + 1 <= Len(data[row]) THEN data[row][column + 1] ELSE Undefined

\* `${tableName}_${playerName}`
CacheKey(tableName, playerName) == ToText(tableName) \o "_" \o ToText(playerName)

\* new PlayerIndexCache(): an empty map and lastUpdate 0, so isValid() is false;
\* valid stands for Date.now() - lastUpdate < cacheLifetime
NewPlayerIndexCache == [cache |-> <<>>, valid |-> FALSE]

isValid(pc) == pc.valid

\* the rows refresh indexes: status IN, player and table not empty
IndexedRows(data) ==
    {i \in 2..Len(data) :
        /\ Cell(data, i, TYPE_COLUMNS.STATUS) = Str("IN")
        /\ Truthy(Cell(data, i, TYPE_COLUMNS.PLAYER))
        /\ Truthy(Cell(data, i, TYPE_COLUMNS.TABLE))}

KeyOfRow(data, i) ==
    CacheKey(Cell(data, i, TYPE_COLUMNS.TABLE), Cell(data, i, TYPE_COLUMNS.PLAYER))

EntryOfRow(data, i) ==
    [row |-> i,
     chips |-> Cell(data, i, TYPE_COLUMNS.CHIPS),
     updatedAt |-> Cell(data, i, TYPE_COLUMNS.UPDATED_AT),
     seat |-> Cell(data, i, TYPE_COLUMNS.SEAT)]

\* refresh(data): the entries of a key are pushed in the order of the rows
refresh(data) ==
    [cache |->
        [k \in {KeyOfRow(data, i) : i \in IndexedRows(data)} |->
            LET rows == SortAscending({i \in IndexedRows(data) : KeyOfRow(data, i) = k})
            IN [j \in 1..Len(rows) |-> EntryOfRow(data, rows[j])]],
     valid |-> TRUE]

\* the place of an entry in a list sorted latest first: after every entry that
\* is not older (Array.prototype.sort is stable)
RECURSIVE InsertEntry(_, _)
InsertEntry(sorted, e) ==
    IF sorted = <<>> THEN <<e>>
    ELSE IF TimeOf(Head(sorted).updatedAt) >= TimeOf(e.updatedAt)
         THEN <<Head(sorted)>> \o InsertEntry(Tail(sorted), e)
         ELSE <<e>> \o sorted

\* entries.sort((a, b) => dateB - dateA)
RECURSIVE SortLatestFirst(_)
SortLatestFirst(entries) ==
    IF entries = <<>> THEN <<>>
    ELSE InsertEntry(SortLatestFirst(SubSeq(entries, 1, Len(entries) - 1)),
                     entries[Len(entries)])

\* the cache after findDuplicates: the entries of a key with more than one are
\* sorted in place
SortedCache(pc) ==
    [cache |-> [k \in DOMAIN pc.cache |->
                   IF Len(pc.cache[k]) > 1 THEN SortLatestFirst(pc.cache[k])
                   ELSE pc.cache[k]],
     valid |-> pc.valid]

\* findDuplicates(): the rows of every entry but the first of each sorted list
findDuplicates(pc) ==
    LET sorted == SortedCache(pc).cache
    IN UNION {{sorted[k][j].row : j \in 2..Len(sorted[k])} : k \in DOMAIN sorted}

\* duplicates.sort((a, b) => b.row - a.row)
RECURSIVE SortDescending(_)
SortDescending(S) ==
    IF S = {} THEN <<>>
    ELSE <<SetMax(S)>> \o SortDescending(S \ {SetMax(S)})

\* the loop that merges the rows, highest first, into ranges of consecutive rows
RECURSIVE MergeRanges(_, _)
MergeRanges(ranges, rows) ==
    IF rows = <<>> THEN ranges
    ELSE LET row == Head(rows)
             n == Len(ranges)
         IN IF n = 0 \/ row # ranges[n].start - 1
            THEN MergeRanges(Append(ranges, [start |-> row, end |-> row, count |-> 1]),
                             Tail(rows))
            ELSE MergeRanges([ranges EXCEPT ![n] = [start |-> row, end |-> @.end,
                                                   count |-> @.count + 1]],
                             Tail(rows))

\* sheet.deleteRows(start, count) and sheet.deleteRow(start): a row number past
\* the last row of data is an empty row of the grid
deleteRows(rows, start, count) ==
    LET kept == {i \in 1..Len(rows) : i < start \/ i >= start + count}
        order == SortAscending(kept)
    IN [j \in 1..Len(order) |-> rows[order[j]]]

\* for (const range of ranges) sheet.deleteRows(range.start, range.count)
RECURSIVE DeleteRanges(_, _)
DeleteRanges(rows, ranges) ==
    IF ranges = <<>> THEN rows
    ELSE DeleteRanges(deleteRows(rows, Head(ranges).start, Head(ranges).count),
                      Tail(ranges))

RECURSIVE SumCounts(_)
SumCounts(ranges) ==
    IF ranges = <<>> THEN 0 ELSE Head(ranges).count + SumCounts(Tail(ranges))

\* the object a backend function returns
Result(fields) == [type |-> "result", value |-> fields]

\* removeDuplicatePlayersOptimized(incremental) on the rows and the cache given:
\* the rows and the cache it leaves and the object it returns
RemoveDuplicates(rows, pc, incremental) ==
    LET data == getValues(rows)
        used == IF ~incremental \/ ~isValid(pc) THEN refresh(data) ELSE pc
        duplicates == findDuplicates(used)
        ranges == MergeRanges(<<>>, SortDescending(duplicates))
    IN IF duplicates = {}
       THEN [sheet |-> rows,
             playerCache |-> SortedCache(used),
             ret |-> Result([success |-> TRUE, duplicates |-> 0])]
       ELSE [sheet |-> DeleteRanges(rows, ranges),
             playerCache |-> [cache |-> SortedCache(used).cache, valid |-> FALSE],
             ret |-> Result([success |-> TRUE, duplicates |-> SumCounts(ranges)])]

\* checkDuplicateForPlayer(playerName, tableName)
CheckDuplicate(rows, pc, playerName, tableName) ==
    LET key == CacheKey(tableName, playerName)
        used == IF ~isValid(pc) THEN refresh(getValues(rows)) ELSE pc
        count == IF key \in DOMAIN used.cache THEN Len(used.cache[key]) ELSE 0
    IN [sheet |-> rows,
        playerCache |-> used,
        ret |-> Result([success |-> TRUE, isDuplicate |-> count > 1, count |-> count])]

\* the loop of smartRemoveDuplicates over the recent changes, left at the first
\* duplicate: the cache it leaves and whether a duplicate was found
RECURSIVE CheckChanges(_, _, _)
CheckChanges(rows, pc, changes) ==
    IF changes = <<>> THEN [playerCache |-> pc, found |-> FALSE]
    ELSE LET r == CheckDuplicate(rows, pc, Head(changes).player, Head(changes).table)
         IN IF r.ret.value.isDuplicate THEN [playerCache |-> r.playerCache, found |-> TRUE]
            ELSE CheckChanges(rows, r.playerCache, Tail(changes))

\* smartRemoveDuplicates(recentChanges)
SmartRemove(rows, pc, recentChanges) ==
    IF Len(recentChanges) > 0 /\ Len(recentChanges) <= 5
    THEN LET c == CheckChanges(rows, pc, recentChanges)
         IN IF c.found THEN RemoveDuplicates(rows, c.playerCache, FALSE)
            ELSE [sheet |-> rows, playerCache |-> c.playerCache,
                  ret |-> Result([success |-> TRUE, mode |-> "incremental"])]
    ELSE RemoveDuplicates(rows, pc, FALSE)

\* v || fallback
OrElse(v, fallback) == IF Truthy(v) THEN v ELSE fallback

\* the first of the matching rows of a scan that breaks at a match, 0 when there
\* is none
FirstRow(matching) == IF matching = {} THEN 0 ELSE SetMin(matching)

\* rowsToDelete: for each deleted name the first row of the name and the table
RECURSIVE RowsToDelete(_, _, _)
RowsToDelete(data, tableName, deleted) ==
    IF deleted = <<>> THEN <<>>
    ELSE LET Match(i) == /\ Cell(data, i, TYPE_COLUMNS.PLAYER) = Head(deleted)
                         /\ Cell(data, i, TYPE_COLUMNS.TABLE) = tableName
             row == FirstRow({i \in 2..Len(data) : Match(i)})
             rest == RowsToDelete(data, tableName, Tail(deleted))
         IN IF row = 0 THEN rest ELSE <<row>> \o rest

\* rowsToDelete.sort((a, b) => b - a), a row listed twice staying twice
RECURSIVE SortRowsDescending(_)
SortRowsDescending(rows) ==
    IF rows = <<>> THEN <<>>
    ELSE LET top == SetMax({rows[j] : j \in 1..Len(rows)})
             IsTop(r) == r = top
             NotTop(r) == r # top
         IN SelectSeq(rows, IsTop) \o SortRowsDescending(SelectSeq(rows, NotTop))

\* for (const row of rowsToDelete) sheet.deleteRow(row)
RECURSIVE DeleteEach(_, _)
DeleteEach(rows, numbers) ==
    IF numbers = <<>> THEN rows
    ELSE DeleteEach(deleteRows(rows, Head(numbers), 1), Tail(numbers))

\* sheet.getRange(row, column).setValue(v), column counted from 1
setValue(rows, row, column, v) ==
    [rows EXCEPT ![row] =
        [c \in 1..(IF column > Len(@) THEN column ELSE Len(@)) |->
            IF c = column THEN v ELSE IF c <= Len(@) THEN @[c] ELSE Str("")]]

\* the row of the data a player of the call is found in, 0 when it is not found
FoundRow(data, tableName, player) ==
    LET Match(i) == /\ Cell(data, i, TYPE_COLUMNS.PLAYER) = player.name
                    /\ Cell(data, i, TYPE_COLUMNS.TABLE) = tableName
                    /\ Cell(data, i, TYPE_COLUMNS.STATUS) = Str("IN")
    IN FirstRow({i \in 2..Len(data) : Match(i)})

NotableText(player) == IF player.notable = Bool(TRUE) THEN Str("TRUE") ELSE Str("FALSE")

\* the four setValue calls of one update
UpdateRow(rows, row, player, now) ==
    LET chips == setValue(rows, row, RANGE_COLUMNS.CHIPS, OrElse(player.chips, Num(0)))
        seat == setValue(chips, row, RANGE_COLUMNS.SEAT, OrElse(player.seat, Str("")))
        updated == setValue(seat, row, RANGE_COLUMNS.UPDATED_AT, now)
    IN IF player.notable # Undefined
       THEN setValue(updated, row, RANGE_COLUMNS.NOTABLE, NotableText(player))
       ELSE updated

\* for (const update of updates): the rows found in `data`, written into `rows`
RECURSIVE ApplyUpdates(_, _, _, _, _)
ApplyUpdates(rows, data, tableName, players, now) ==
    IF players = <<>> THEN rows
    ELSE LET row == FoundRow(data, tableName, Head(players))
         IN ApplyUpdates(IF row = 0 THEN rows ELSE UpdateRow(rows, row, Head(players), now),
                         data, tableName, Tail(players), now)

\* the row written for an added player: camera, player, table, notable, chips,
\* updatedAt, seat, status
NewRow(tableName, player, now) ==
    <<Str(""), player.name, tableName, NotableText(player),
      OrElse(player.chips, Num(0)), now, OrElse(player.seat, Str("")), Str("IN")>>

\* the rows of the players that were not found, in the order of the players
RECURSIVE Additions(_, _, _, _)
Additions(data, tableName, players, now) ==
    IF players = <<>> THEN <<>>
    ELSE (IF FoundRow(data, tableName, Head(players)) = 0
          THEN <<NewRow(tableName, Head(players), now)>> ELSE <<>>)
         \o Additions(data, tableName, Tail(players), now)

\* batchUpdatePlayersOptimized(tableName, players, deleted) up to its step 3: the
\* rows and the cache before sortTypeSheet() and the object returned
BatchUpdate(rows, pc, tableName, players, deleted, now) ==
    LET afterDelete ==
            IF Len(deleted) > 0
            THEN DeleteEach(rows, SortRowsDescending(
                                      RowsToDelete(getValues(rows), tableName, deleted)))
            ELSE rows
        data == getValues(afterDelete)
        updated == ApplyUpdates(afterDelete, data, tableName, players, now)
        additions == Additions(data, tableName, players, now)
        written == updated \o additions
        changes == [j \in 1..Len(players) |->
                       [player |-> players[j].name, table |-> tableName]]
        cleanup == SmartRemove(written, pc, changes)
    IN [sheet |-> cleanup.sheet,
        playerCache |-> cleanup.playerCache,
        ret |-> Result([success |-> TRUE,
                        updated |-> Len(players) - Len(additions),
                        added |-> Len(additions),
                        deleted |-> Len(deleted),
                        duplicatesRemoved |->
                            IF "duplicates" \in DOMAIN cleanup.ret.value
                            THEN cleanup.ret.value.duplicates ELSE 0])]

\* a permutation of the set S as a sequence
RowOrders(S) ==
    {p \in [1..Cardinality(S) -> S] : \A i, j \in 1..Cardinality(S) : i # j => p[i] # p[j]}

\* sortTypeSheet(): the header stays and the other rows are put in an order that
\* this file does not give
sortTypeSheet(rows) ==
    {<<rows[1]>> \o [j \in 1..(Len(rows) - 1) |-> rows[p[j]]] :
        p \in RowOrders(2..Len(rows))}

(* The engine.                                                             *)

\* the cursors object literal of the constructor, initializeHand and endHand:
\* the four streets at 0, any other key absent
ZeroIndex == [s \in StreetKeys |-> IF s \in Streets THEN Num(0) ELSE Undefined]

\* constructor
Init ==
    /\ handNumber = Null
    /\ buttonPosition = 1
    /\ absoluteOrder = [preflop |-> <<>>, postflop |-> <<>>]
    /\ currentStreet = "preflop"
    /\ currentActionIndex = ZeroIndex
    /\ playerStatus = <<>>
    /\ ret = NoCall
    /\ acting = Null
    /\ actionManager = Null
    /\ sheet = <<TypeHeader>>
    /\ playerCache = NewPlayerIndexCache

initializeHand(playersInHand, button, hand) ==
    /\ handNumber' = Str(hand)
    /\ buttonPosition' = button
    /\ playerStatus' = [n \in {playersInHand[k].name : k \in 1..Len(playersInHand)} |-> "active"]
    /\ currentActionIndex' = ZeroIndex
    /\ absoluteOrder' = [preflop |-> createPreflopOrder(playersInHand, button),
                         postflop |-> createPostflopOrder(playersInHand, button)]
    /\ UNCHANGED currentStreet
    /\ ret' = This

\* endHand that leaves the order tables in place
endHand_KeepTables ==
    /\ handNumber' = Null
    /\ UNCHANGED absoluteOrder
    /\ currentActionIndex' = ZeroIndex
    /\ playerStatus' = <<>>
    /\ currentStreet' = "preflop"
    /\ UNCHANGED buttonPosition
    /\ ret' = Undefined

\* endHand that leaves the status registry in place
endHand_KeepStatus ==
    /\ handNumber' = Null
    /\ absoluteOrder' = [preflop |-> <<>>, postflop |-> <<>>]
    /\ currentActionIndex' = ZeroIndex
    /\ UNCHANGED playerStatus
    /\ currentStreet' = "preflop"
    /\ UNCHANGED buttonPosition
    /\ ret' = Undefined

endHand ==
    /\ handNumber' = Null
    /\ absoluteOrder' = [preflop |-> <<>>, postflop |-> <<>>]
    /\ currentActionIndex' = ZeroIndex
    /\ playerStatus' = <<>>
    /\ currentStreet' = "preflop"
    /\ UNCHANGED buttonPosition
    /\ ret' = Undefined

----------------------------------------------------------------------------
(* The methods that read or move the cursors and the status registry.     *)

\* this.playerStatus[name]: "undefined" for a name that is no key
StatusOf(name) ==
    IF name \in DOMAIN playerStatus THEN playerStatus[name] ELSE "undefined"

\* OrderTable with the river looked up in the preflop table
OrderTable_RiverPreflop(street) ==
    IF street \in {"preflop", "river"} THEN absoluteOrder.preflop ELSE absoluteOrder.postflop

\* street === 'preflop' ? this.absoluteOrder.preflop : this.absoluteOrder.postflop
OrderTable(street) ==
    IF street = "preflop" THEN absoluteOrder.preflop ELSE absoluteOrder.postflop

IsActive(p) == StatusOf(p.player) = "active"

\* PlayerAt indexing the whole table instead of its active slots
PlayerAt_Unfiltered(street, index) ==
    LET orderTable == OrderTable(street)
    IN IF Len(orderTable) = 0 THEN Null
       ELSE IF ~IsNum(index) THEN Undefined
       ELSE orderTable[(index.value % Len(orderTable)) + 1]

\* the body of getCurrentPlayer for a cursor value `index`
PlayerAt(street, index) ==
    LET activePlayers == SelectSeq(OrderTable(street), IsActive)
    IN IF Len(activePlayers) = 0 THEN Null
       \* undefined % n and NaN % n are NaN, and activePlayers[NaN] is undefined
       ELSE IF ~IsNum(index) THEN Undefined
       ELSE activePlayers[(index.value % Len(activePlayers)) + 1]

getCurrentPlayer(street) == PlayerAt(street, currentActionIndex[street])

\* Increment that leaves the cursor where it is
Increment_Stuck(index) == index

\* this.currentActionIndex[street]++
Increment(index) == IF IsNum(index) THEN Num(index.value + 1) ELSE NaN

moveToNextPlayer(street) ==
    /\ currentActionIndex' = [currentActionIndex EXCEPT ![street] = Increment(@)]
    /\ UNCHANGED <<handNumber, buttonPosition, absoluteOrder, currentStreet, playerStatus>>
    /\ ret' = getCurrentPlayer(street)'

\* filter of an order table: the slots of players other than `name`
WithoutPlayer(table, name) ==
    LET Other(p) == p.player # name IN SelectSeq(table, Other)

\* updatePlayerStatus that takes the slots of a player who leaves out of the tables
updatePlayerStatus_DropsSlot(playerName, status) ==
    /\ playerStatus' = [n \in DOMAIN playerStatus \cup {playerName} |->
                            IF n = playerName THEN status ELSE playerStatus[n]]
    /\ absoluteOrder' = IF status = "active" THEN absoluteOrder
                        ELSE [preflop |-> WithoutPlayer(absoluteOrder.preflop, playerName),
                              postflop |-> WithoutPlayer(absoluteOrder.postflop, playerName)]
    /\ UNCHANGED <<handNumber, buttonPosition, currentStreet, currentActionIndex>>
    /\ ret' = Num(Cardinality({n \in DOMAIN playerStatus' : playerStatus'[n] = "active"}))

updatePlayerStatus(playerName, status) ==
    /\ playerStatus' = [n \in DOMAIN playerStatus \cup {playerName} |->
                            IF n = playerName THEN status ELSE playerStatus[n]]
    /\ UNCHANGED <<handNumber, buttonPosition, absoluteOrder, currentStreet,
                   currentActionIndex>>
    /\ ret' = Num(Cardinality({n \in DOMAIN playerStatus' : playerStatus'[n] = "active"}))

\* advanceToStreet that leaves the street's cursor where it is
advanceToStreet_KeepCursor(newStreet) ==
    /\ currentStreet' = newStreet
    /\ UNCHANGED currentActionIndex
    /\ UNCHANGED <<handNumber, buttonPosition, absoluteOrder, playerStatus>>
    /\ ret' = getCurrentPlayer(newStreet)'

advanceToStreet(newStreet) ==
    /\ currentStreet' = newStreet
    /\ currentActionIndex' = [currentActionIndex EXCEPT ![newStreet] = Num(0)]
    /\ UNCHANGED <<handNumber, buttonPosition, absoluteOrder, playerStatus>>
    /\ ret' = getCurrentPlayer(newStreet)'

\* getActionOrder with canAct true for every player who has not folded
getActionOrder_AllinCanAct(street) ==
    LET orderTable == OrderTable(street)
    IN [k \in 1..Len(orderTable) |->
           [player |-> orderTable[k].player, seat |-> orderTable[k].seat,
            position |-> orderTable[k].position, priority |-> orderTable[k].priority,
            status |-> StatusOf(orderTable[k].player),
            canAct |-> StatusOf(orderTable[k].player) # "folded"]]

getActionOrder(street) ==
    LET orderTable == OrderTable(street)
    IN [k \in 1..Len(orderTable) |->
           [player |-> orderTable[k].player, seat |-> orderTable[k].seat,
            position |-> orderTable[k].position, priority |-> orderTable[k].priority,
            status |-> StatusOf(orderTable[k].player),
            canAct |-> StatusOf(orderTable[k].player) = "active"]]

CanAct(p) == p.canAct

\* the action kinds of a log entry
ActionKinds == {"call", "raise"}

\* actions.forEach(a => { if (a.player) playerActions[a.player] = a.action })
PlayerActions(actions) ==
    [n \in {actions[k].player : k \in 1..Len(actions)} |->
        actions[SetMax({k \in 1..Len(actions) : actions[k].player = n})].action]

\* isBettingRoundComplete with `some` in the place of `every`
isBettingRoundComplete_Some(street, actions) ==
    LET activePlayers == SelectSeq(getActionOrder(street), CanAct)
        playerActions == PlayerActions(actions)
        allActed == \E k \in 1..Len(activePlayers) :
                        activePlayers[k].player \in DOMAIN playerActions
    IN IF Len(activePlayers) <= 1 THEN TRUE
       ELSE IF ~allActed THEN FALSE
       ELSE TRUE

isBettingRoundComplete(street, actions) ==
    LET activePlayers == SelectSeq(getActionOrder(street), CanAct)
        playerActions == PlayerActions(actions)
        allActed == \A k \in 1..Len(activePlayers) :
                        activePlayers[k].player \in DOMAIN playerActions
    IN IF Len(activePlayers) <= 1 THEN TRUE
       ELSE IF ~allActed THEN FALSE
       ELSE TRUE

----------------------------------------------------------------------------
(* The order-building specification: hands of any two or more of the seats *)
(* 1..MaxSeat, with any of those seats as the button, each ended before    *)
(* the next is dealt.                                                      *)

BuildHand ==
    /\ handNumber = Null
    /\ \E S \in Hands(MaxSeat), b \in 1..MaxSeat, h \in HandIds :
           initializeHand(Roster(S), b, h)
    /\ acting' = Null
    /\ UNCHANGED outside

EndHand ==
    /\ endHand
    /\ acting' = Null
    /\ UNCHANGED outside

NextBuild == BuildHand \/ EndHand

SpecBuild == Init /\ [][NextBuild]_vars

----------------------------------------------------------------------------
(* The engine specification: the table has the seats 1..TableSize, a hand  *)
(* is dealt to the players of seats 1..n for any n >= 2 with any seat of   *)
(* the table as the button (a seat above n is no seat of a dealt player),  *)
(* and the methods are called in any order: a status is set for any dealt  *)
(* player, a cursor is moved or reset for any of the four streets.         *)

\* the one hand id of the engine specification
EngineHand == "H1"

IndexValue(s) == IF IsNum(currentActionIndex[s]) THEN currentActionIndex[s].value ELSE 0

SumIndex == IndexValue("preflop") + IndexValue("flop") + IndexValue("turn")
            + IndexValue("river") + IndexValue(OtherStreet)

StartHand ==
    /\ \E n \in 2..TableSize, b \in 1..TableSize :
          initializeHand(Roster(1..n), b, EngineHand)
    /\ acting' = Null
    /\ UNCHANGED outside

MoveOn ==
    /\ SumIndex < MaxMoves
    /\ \E s \in Streets : moveToNextPlayer(s)
    /\ acting' = Null
    /\ UNCHANGED outside

SetStatus ==
    /\ \E n \in DOMAIN playerStatus, st \in Statuses : updatePlayerStatus(n, st)
    /\ acting' = Null
    /\ UNCHANGED outside

Advance ==
    /\ \E s \in Streets : advanceToStreet(s)
    /\ acting' = Null
    /\ UNCHANGED outside

Next == StartHand \/ MoveOn \/ SetStatus \/ Advance \/ EndHand

Spec == Init /\ [][Next]_vars

----------------------------------------------------------------------------
(* The per-action flow: the caller reads the current player of a street,   *)
(* records the player's fold or all-in with updatePlayerStatus and then    *)
(* calls moveToNextPlayer for the street.  `acting` holds the street and   *)
(* the slot of the player between the two calls and after the second; it   *)
(* is null outside the flow.                                               *)

Flow(street, slot, moved) == [type |-> "flow", street |-> street, slot |-> slot, moved |-> moved]

FlowIdle == IF acting = Null THEN TRUE ELSE acting.moved

ActorLeaves ==
    /\ FlowIdle
    /\ \E s \in Streets, st \in {"folded", "allin"}, n \in DOMAIN playerStatus :
          /\ IsSlot(getCurrentPlayer(s))
          /\ n = getCurrentPlayer(s).player
          /\ updatePlayerStatus(n, st)
          /\ acting' = Flow(s, getCurrentPlayer(s), FALSE)
    /\ UNCHANGED outside

TurnPasses ==
    /\ ~FlowIdle
    /\ SumIndex < MaxMoves
    /\ \E s \in Streets : s = acting.street /\ moveToNextPlayer(s)
    /\ acting' = Flow(acting.street, acting.slot, TRUE)
    /\ UNCHANGED outside

NextFlow ==
    \/ ActorLeaves
    \/ TurnPasses
    \/ FlowIdle /\ StartHand
    \/ FlowIdle /\ MoveOn
    \/ FlowIdle /\ Advance
    \/ FlowIdle /\ EndHand

SpecFlow == Init /\ [][NextFlow]_vars

----------------------------------------------------------------------------
(* The betting-round specification: hands, status changes and moves of the *)
(* current street's cursor; the action logs handed to                      *)
(* isBettingRoundComplete are all the sequences of at most MaxActions      *)
(* entries of a player of the table and an action kind.                    *)

TableNames == {PlayerNames[s] : s \in 1..TableSize}

ActionLogs ==
    UNION {[1..l -> [player : TableNames, action : ActionKinds]] : l \in 0..MaxActions}

MoveCurrent ==
    /\ SumIndex < MaxMoves
    /\ \E s \in Streets : s = currentStreet /\ moveToNextPlayer(s)
    /\ acting' = Null
    /\ UNCHANGED outside

NextRound == StartHand \/ SetStatus \/ MoveCurrent \/ EndHand

SpecRound == Init /\ [][NextRound]_vars

----------------------------------------------------------------------------
(* The query specification: the calls of the engine specification on a     *)
(* table of the seats 1..QuerySeats, with the cursor moves kept to the     *)
(* current street, and the three methods that only read the fields, each   *)
(* called as a step of its own for any street key; the value returned is   *)
(* kept in ret.  The action log handed to isBettingRoundComplete has one   *)
(* call entry for each player of the seats 1..k, for any k.                *)

fields == <<handNumber, buttonPosition, absoluteOrder, currentStreet,
            currentActionIndex, playerStatus>>

\* a call of getCurrentPlayer: lines 199-217 assign no field
callGetCurrentPlayer(street) ==
    /\ ret' = getCurrentPlayer(street)
    /\ UNCHANGED fields

\* a call of getActionOrder: lines 277-287 assign no field, map builds new objects
callGetActionOrder(street) ==
    /\ ret' = Arr(getActionOrder(street))
    /\ UNCHANGED fields

\* a call of isBettingRoundComplete: lines 294-322 assign no field
callIsBettingRoundComplete(street, actions) ==
    /\ ret' = Bool(isBettingRoundComplete(street, actions))
    /\ UNCHANGED fields

\* the log in which each player of the seats S has called, in seat order
RECURSIVE CallLog(_)
CallLog(S) ==
    IF S = {} THEN <<>>
    ELSE <<[player |-> PlayerNames[SetMin(S)], action |-> "call"]>> \o CallLog(S \ {SetMin(S)})

RoundLogs == {CallLog(1..k) : k \in 0..QuerySeats}

QueryHand ==
    /\ \E n \in 2..QuerySeats, b \in 1..QuerySeats :
          initializeHand(Roster(1..n), b, EngineHand)
    /\ acting' = Null
    /\ UNCHANGED outside

AskCurrentPlayer ==
    /\ \E s \in StreetKeys : callGetCurrentPlayer(s)
    /\ acting' = Null
    /\ UNCHANGED outside

AskActionOrder ==
    /\ \E s \in StreetKeys : callGetActionOrder(s)
    /\ acting' = Null
    /\ UNCHANGED outside

AskRoundComplete ==
    /\ \E s \in StreetKeys, actions \in RoundLogs : callIsBettingRoundComplete(s, actions)
    /\ acting' = Null
    /\ UNCHANGED outside

NextQuery ==
    \/ QueryHand
    \/ SetStatus
    \/ MoveCurrent
    \/ Advance
    \/ EndHand
    \/ AskCurrentPlayer
    \/ AskActionOrder
    \/ AskRoundComplete

SpecQuery == Init /\ [][NextQuery]_vars

----------------------------------------------------------------------------

(* The registry specification: hands on a table of the seats               *)
(* 1..QuerySeats, and updatePlayerStatus, moveToNextPlayer and             *)
(* advanceToStreet called with any arguments: any name of the players of   *)
(* the seats 1..QuerySeats + 1 (the player of the last seat is never       *)
(* dealt in), any status, any street key.  The caller's note holds the     *)
(* names of the players it handed to initializeHand.                       *)

Dealt(players) ==
    [type |-> "dealt", names |-> {players[k].name : k \in 1..Len(players)}]

AnyNames == {PlayerNames[s] : s \in 1..(QuerySeats + 1)}

DealHand ==
    \E n \in 2..QuerySeats, b \in 1..QuerySeats :
        /\ initializeHand(Roster(1..n), b, EngineHand)
        /\ acting' = Dealt(Roster(1..n))
    /\ UNCHANGED outside

NameStatus ==
    /\ \E n \in AnyNames, st \in Statuses : updatePlayerStatus(n, st)
    /\ UNCHANGED acting
    /\ UNCHANGED outside

MoveAny ==
    /\ SumIndex < MaxMoves
    /\ \E s \in StreetKeys : moveToNextPlayer(s)
    /\ UNCHANGED acting
    /\ UNCHANGED outside

AdvanceAny ==
    /\ \E s \in StreetKeys : advanceToStreet(s)
    /\ UNCHANGED acting
    /\ UNCHANGED outside

NextRegistry == DealHand \/ NameStatus \/ MoveAny \/ AdvanceAny \/ EndHand

SpecRegistry == Init /\ [][NextRegistry]_vars

----------------------------------------------------------------------------

(* The street specification: the calls of the engine specification with    *)
(* moveToNextPlayer and advanceToStreet called for the flop and for a      *)
(* value outside the four streets.                                         *)

LooseStreets == {"flop", OtherStreet}

MoveLoose ==
    /\ SumIndex < MaxMoves
    /\ \E s \in LooseStreets : moveToNextPlayer(s)
    /\ acting' = Null
    /\ UNCHANGED outside

AdvanceLoose ==
    /\ \E s \in LooseStreets : advanceToStreet(s)
    /\ acting' = Null
    /\ UNCHANGED outside

NextStreet == StartHand \/ SetStatus \/ MoveLoose \/ AdvanceLoose \/ EndHand

SpecStreet == Init /\ [][NextStreet]_vars

----------------------------------------------------------------------------

(* The shim specification: the page after the script has run, with         *)
(* window.actionManager made from the engine by an object spread (lines    *)
(* 385-398).  The spread copies the own fields of the engine: the numbers  *)
(* and strings by value, the objects by reference; the methods of the      *)
(* class are on the prototype and are not copied.  shared tells that the   *)
(* objects the copy refers to are still the ones the fields of the engine  *)
(* refer to, so that a write into them shows in both.                      *)

ShimMethods == {"calculateActionOrder", "getActivePlayers"}

\* { ...window.actionOrderManager, calculateActionOrder, getActivePlayers } of
\* the engine as the constructor leaves it
NewActionManager ==
    [handNumber |-> Null,
     buttonPosition |-> 1,
     absoluteOrder |-> [preflop |-> <<>>, postflop |-> <<>>],
     currentStreet |-> "preflop",
     currentActionIndex |-> ZeroIndex,
     playerStatus |-> <<>>,
     methods |-> ShimMethods,
     shared |-> TRUE]

\* the state after line 398
InitShim ==
    /\ handNumber = Null
    /\ buttonPosition = 1
    /\ absoluteOrder = [preflop |-> <<>>, postflop |-> <<>>]
    /\ currentStreet = "preflop"
    /\ currentActionIndex = ZeroIndex
    /\ playerStatus = <<>>
    /\ ret = NoCall
    /\ acting = Null
    /\ actionManager = NewActionManager
    /\ sheet = <<TypeHeader>>
    /\ playerCache = NewPlayerIndexCache

\* an error thrown by a call
Thrown(name) == [type |-> "thrown", name |-> name]

\* the compatibility object after a call of the engine that assigns new objects to
\* its fields (lines 48, 54, 62 and 331-341): it keeps the objects it has
ShimLeftBehind == [actionManager EXCEPT !.shared = FALSE]

\* the compatibility object after a call of updatePlayerStatus, which writes into
\* the registry object of the engine (line 241)
ShimWrittenThrough ==
    IF actionManager.shared
    THEN [actionManager EXCEPT !.playerStatus = playerStatus']
    ELSE actionManager

\* window.actionManager.calculateActionOrder(street): this is the compatibility
\* object, and this.getActionOrder is not a function unless the object has it
calculateActionOrder(street) ==
    IF "getActionOrder" \in actionManager.methods
    THEN Arr(getActionOrder(street))
    ELSE Thrown("TypeError")

\* window.actionManager.getActivePlayers(players)
getActivePlayers(players) ==
    LET Active(p) == /\ p.name \in DOMAIN actionManager.playerStatus
                     /\ actionManager.playerStatus[p.name] = "active"
    IN Arr(SelectSeq(players, Active))

\* the player lists handed to getActivePlayers
ShimRosters == {Roster(S) : S \in SUBSET (1..QuerySeats)}

ShimHand ==
    /\ \E n \in 2..QuerySeats, b \in 1..QuerySeats :
          initializeHand(Roster(1..n), b, EngineHand)
    /\ actionManager' = ShimLeftBehind
    /\ acting' = Null
    /\ UNCHANGED <<sheet, playerCache>>

ShimStatus ==
    /\ \E n \in AnyNames, st \in Statuses : updatePlayerStatus(n, st)
    /\ actionManager' = ShimWrittenThrough
    /\ UNCHANGED <<acting, sheet, playerCache>>

ShimEndHand ==
    /\ endHand
    /\ actionManager' = ShimLeftBehind
    /\ acting' = Null
    /\ UNCHANGED <<sheet, playerCache>>

ShimActionOrder ==
    /\ \E s \in StreetKeys : ret' = calculateActionOrder(s)
    /\ UNCHANGED fields
    /\ UNCHANGED <<acting, actionManager, sheet, playerCache>>

ShimActivePlayers ==
    /\ \E players \in ShimRosters : ret' = getActivePlayers(players)
    /\ UNCHANGED fields
    /\ UNCHANGED <<acting, actionManager, sheet, playerCache>>

NextShim ==
    \/ ShimHand
    \/ ShimStatus
    \/ ShimEndHand
    \/ ShimActionOrder
    \/ ShimActivePlayers

SpecShim == InitShim /\ [][NextShim]_vars

----------------------------------------------------------------------------

(* The cleanup specification: the Type sheet of the backend, rows appended *)
(* to it one at a time by its editors, and the full cleanup.  A row has    *)
(* the seven columns of TYPE_COLUMNS.  The names are the strings of the    *)
(* sheet: a player name or a table name may hold an underscore.            *)

SheetPlayers == {"B", "A_B"}
SheetTables == {"T", "T_A"}
SheetStatuses == {"IN", "OUT"}
SheetTimes == {Str(""), Date(1), Date(2)}

\* a row of the Type sheet in the columns Player .. Status
SheetRow(player, table, updatedAt, status) ==
    <<Str(player), Str(table), Str("FALSE"), Num(100), updatedAt, Num(1), Str(status)>>

SheetRows ==
    {SheetRow(p, t, u, s) : p \in SheetPlayers, t \in SheetTables,
                            u \in SheetTimes, s \in SheetStatuses}

\* the state the backend does not touch
page == <<handNumber, buttonPosition, absoluteOrder, currentStreet,
          currentActionIndex, playerStatus, acting, actionManager>>

\* a row appended to the sheet by an editor of the sheet; no function returns
AddRow ==
    /\ Len(sheet) <= MaxRows
    /\ \E row \in SheetRows : sheet' = Append(sheet, row)
    /\ ret' = NoCall
    /\ UNCHANGED playerCache
    /\ UNCHANGED page

\* a call of removeDuplicatePlayersOptimized(incremental)
Cleanup(incremental) ==
    LET r == RemoveDuplicates(sheet, playerCache, incremental)
    IN /\ sheet' = r.sheet
       /\ playerCache' = r.playerCache
       /\ ret' = r.ret

FullCleanup ==
    /\ Cleanup(FALSE)
    /\ UNCHANGED page

NextCleanup == AddRow \/ FullCleanup

SpecCleanup == Init /\ [][NextCleanup]_vars

----------------------------------------------------------------------------

(* The cache specification: the Type sheet edited between the calls of the *)
(* backend (a row appended, a row deleted), the cleanup in both modes,     *)
(* checkDuplicateForPlayer, and the passing of the lifetime of the cache.  *)
(* The rows are those of one table, so that no two pairs share a key.      *)

CachePlayers == {"B", "A_B"}
CacheTable == "T"
CacheTimes == {Date(1), Date(2)}

CacheRows ==
    {SheetRow(p, CacheTable, u, s) : p \in CachePlayers, u \in CacheTimes, s \in SheetStatuses}

\* a row appended to the sheet by an editor of the sheet
EditAdd ==
    /\ Len(sheet) <= MaxRows
    /\ \E row \in CacheRows : sheet' = Append(sheet, row)
    /\ ret' = NoCall
    /\ UNCHANGED playerCache
    /\ UNCHANGED page

\* a row deleted from the sheet by an editor of the sheet
EditDelete ==
    /\ \E i \in 2..Len(sheet) : sheet' = deleteRows(sheet, i, 1)
    /\ ret' = NoCall
    /\ UNCHANGED playerCache
    /\ UNCHANGED page

\* the lifetime of the cache passes: Date.now() - lastUpdate reaches cacheLifetime
Expire ==
    /\ isValid(playerCache)
    /\ playerCache' = [playerCache EXCEPT !.valid = FALSE]
    /\ ret' = NoCall
    /\ UNCHANGED sheet
    /\ UNCHANGED page

IncrementalCleanup ==
    /\ Cleanup(TRUE)
    /\ UNCHANGED page

\* a call of checkDuplicateForPlayer(playerName, tableName)
CheckPlayer ==
    /\ \E p \in CachePlayers :
          LET r == CheckDuplicate(sheet, playerCache, Str(p), Str(CacheTable))
          IN /\ sheet' = r.sheet
             /\ playerCache' = r.playerCache
             /\ ret' = r.ret
    /\ UNCHANGED page

NextCache ==
    \/ EditAdd
    \/ EditDelete
    \/ Expire
    \/ FullCleanup
    \/ IncrementalCleanup
    \/ CheckPlayer

SpecCache == Init /\ [][NextCache]_vars

----------------------------------------------------------------------------

(* The batch specification: batchUpdatePlayersOptimized called for one     *)
(* table with one or two players, with or without a deleted player, on a   *)
(* sheet that its editors seed with IN rows in the TYPE_COLUMNS layout.    *)
(* _open() is not in this file and is taken to give the spreadsheet with   *)
(* its Type sheet; sortTypeSheet() is not in this file either and is taken *)
(* to leave the data rows in any order under the header.                   *)

\* a player of the players argument
BatchPlayer(name) ==
    [name |-> Str(name), chips |-> Num(100), seat |-> Num(1), notable |-> Undefined]

BatchPlayers ==
    {<<BatchPlayer(p)>> : p \in CachePlayers}
        \cup {<<BatchPlayer("B"), BatchPlayer("A_B")>>}

BatchDeleted == {<<>>, <<Str("B")>>}

\* the values of new Date() in a call
BatchTimes == {Date(1), Date(2)}

SeedRows == {SheetRow(p, CacheTable, Date(1), "IN") : p \in CachePlayers}

\* an IN row written into the sheet by an editor of the sheet
SeedRow ==
    /\ Len(sheet) <= MaxRows
    /\ \E row \in SeedRows : sheet' = Append(sheet, row)
    /\ ret' = NoCall
    /\ UNCHANGED playerCache
    /\ UNCHANGED page

\* a call of batchUpdatePlayersOptimized(tableName, players, deleted) at the time now
batchUpdatePlayersOptimized(tableName, players, deleted, now) ==
    LET r == BatchUpdate(sheet, playerCache, tableName, players, deleted, now)
    IN /\ sheet' \in sortTypeSheet(r.sheet)
       /\ playerCache' = r.playerCache
       /\ ret' = r.ret

BatchCall ==
    /\ Len(sheet) <= MaxRows
    /\ \E players \in BatchPlayers, deleted \in BatchDeleted, now \in BatchTimes :
          batchUpdatePlayersOptimized(Str(CacheTable), players, deleted, now)
    /\ UNCHANGED page

NextBatch == SeedRow \/ BatchCall \/ Expire

SpecBatch == Init /\ [][NextBatch]_vars

----------------------------------------------------------------------------

(* Properties of the order tables.  The players of the hand are the keys   *)
(* of the status registry and their seats are given by PlayerNames; the    *)
(* clockwise rotation is stated over the set of seats, without indices.    *)

DealtNames == DOMAIN playerStatus
DealtSeats == {SeatOf(n) : n \in DealtNames}

\* a hand has been started and its button is the seat of a dealt player
ValidHand == handNumber # Null /\ buttonPosition \in DealtSeats

\* the next occupied seat clockwise of seat s
ClockwiseNext(S, s) ==
    IF \E t \in S : t > s THEN SetMin({t \in S : t > s}) ELSE SetMin(S)

\* the n seats that follow seat s clockwise
RECURSIVE Rotation(_, _, _)
Rotation(S, s, n) ==
    IF n = 0 THEN <<>>
    ELSE <<ClockwiseNext(S, s)>> \o Rotation(S, ClockwiseNext(S, s), n - 1)

SeatsOf(table) == [k \in 1..Len(table) |-> table[k].seat]

TableIsDense(table) ==
    /\ Len(table) = Cardinality(DealtNames)
    /\ \A n \in DealtNames :
          Cardinality({k \in 1..Len(table) :
                          table[k].player = n /\ table[k].seat = SeatOf(n)}) = 1
    /\ \A k \in 1..Len(table) : table[k].priority = k - 1

\* C1: after initializeHand with N >= 2 players of distinct seats and the seat of
\* one of them as the button, each order table has exactly N slots, every dealt
\* player is in exactly one slot of each table, and slot k has priority k.
C1_TablesAreDense ==
    ValidHand => TableIsDense(absoluteOrder.preflop) /\ TableIsDense(absoluteOrder.postflop)

C1_Witness ==
    /\ ValidHand
    /\ Len(absoluteOrder.preflop) = 5
    /\ buttonPosition = SetMax(DealtSeats)

\* C2: the preflop order is the clockwise rotation after the button with its
\* first two players moved to the end: relative indices 2..N-1 first, then SB,
\* then BB; seats [1,3,5,7] with button 7 give UTG seat 5, BTN seat 7, SB seat 1,
\* BB seat 3.
C2_PreflopOrder ==
    ValidHand =>
        LET N == Cardinality(DealtSeats)
            rot == Rotation(DealtSeats, buttonPosition, N)
            pre == absoluteOrder.preflop
        IN /\ SeatsOf(pre) = SubSeq(rot, 3, N) \o SubSeq(rot, 1, 2)
           /\ pre[N - 1].position = "SB"
           /\ pre[N].position = "BB"
           /\ (DealtSeats = {1, 3, 5, 7} /\ buttonPosition = 7) =>
                 pre = << [player |-> PlayerNames[5], seat |-> 5, position |-> "UTG", priority |-> 0],
                          [player |-> PlayerNames[7], seat |-> 7, position |-> "BTN", priority |-> 1],
                          [player |-> PlayerNames[1], seat |-> 1, position |-> "SB", priority |-> 2],
                          [player |-> PlayerNames[3], seat |-> 3, position |-> "BB", priority |-> 3] >>

C2_Witness ==
    /\ ValidHand
    /\ DealtSeats = {1, 3, 5, 7}
    /\ buttonPosition = 7
    /\ absoluteOrder.preflop[1].position = "UTG"

PostflopRotation ==
    LET N == Cardinality(DealtSeats)
        post == absoluteOrder.postflop
    IN /\ SeatsOf(post) = Rotation(DealtSeats, buttonPosition, N)
       /\ post[1].position = "SB"
       /\ post[2].position = "BB"
       /\ post[N].seat = buttonPosition

\* C3 as claimed: the postflop order is the clockwise rotation after the button,
\* its first two entries are labelled SB then BB, and its last entry is the
\* button seat's player and is labelled BTN.
C3_PostflopEndsWithBTN ==
    ValidHand =>
        /\ PostflopRotation
        /\ absoluteOrder.postflop[Len(absoluteOrder.postflop)].position = "BTN"

\* C3 as amended: the postflop order is the clockwise rotation after the button,
\* its first two entries are labelled SB then BB, and its last entry is the
\* button seat's player, labelled BTN when N >= 3 and BB when N = 2.
C3_PostflopOrder ==
    ValidHand =>
        /\ PostflopRotation
        /\ absoluteOrder.postflop[Len(absoluteOrder.postflop)].position =
              IF Cardinality(DealtSeats) = 2 THEN "BB" ELSE "BTN"

C3_Witness ==
    /\ ValidHand
    /\ Len(absoluteOrder.postflop) = 2
    /\ absoluteOrder.postflop[2].seat = buttonPosition
    /\ absoluteOrder.postflop[2].position = "BB"

----------------------------------------------------------------------------
(* Properties of the cursors, the status registry and the hand's life.     *)

\* the table a street is looked up in: preflop for preflop, postflop otherwise
TableOfStreet(street) ==
    IF street = "preflop" THEN absoluteOrder.preflop ELSE absoluteOrder.postflop

\* the slots of a table whose player has status active in the registry
ActiveOf(table) ==
    {table[k] : k \in {j \in 1..Len(table) :
                          /\ table[j].player \in DOMAIN playerStatus
                          /\ playerStatus[table[j].player] = "active"}}

LowestPriority(slots) == CHOOSE p \in slots : \A q \in slots : p.priority <= q.priority

\* the first active slot after `slot` in the table's cyclic priority order
NextActiveAfter(table, slot) ==
    LET act == ActiveOf(table)
        later == {p \in act : p.priority > slot.priority}
    IN IF act = {} THEN Null
       ELSE IF later # {} THEN LowestPriority(later)
       ELSE LowestPriority(act)

\* C4: in a hand started with a valid button, for each of the four streets,
\* getCurrentPlayer returns null exactly when the street's table has no active
\* slot; otherwise it returns the active slot that has (cursor mod k) active
\* slots before it in priority order, k being the number of active slots, so
\* never a folded or all-in player.
C4_CurrentPlayerIsActive ==
    ValidHand =>
        \A s \in Streets :
            LET act == ActiveOf(TableOfStreet(s))
                cur == getCurrentPlayer(s)
            IN IF act = {} THEN cur = Null
               ELSE /\ cur \in act
                    /\ Cardinality({p \in act : p.priority < cur.priority})
                         = currentActionIndex[s].value % Cardinality(act)

C4_Witness ==
    /\ ValidHand
    /\ currentActionIndex["flop"] = Num(2)
    /\ Len(absoluteOrder.postflop) = 3
    /\ playerStatus[absoluteOrder.postflop[1].player] = "folded"
    /\ playerStatus[absoluteOrder.postflop[2].player] = "active"
    /\ playerStatus[absoluteOrder.postflop[3].player] = "active"
    /\ getCurrentPlayer("flop") = absoluteOrder.postflop[2]
    /\ getCurrentPlayer("preflop") = absoluteOrder.preflop[1]

\* C5: when the player returned by getCurrentPlayer(street) folds or goes all-in
\* (updatePlayerStatus) and moveToNextPlayer(street) is called next, the player
\* returned is the first still-active slot after the acting player in the
\* table's cyclic priority order.
C5_TurnPassesToNextActive ==
    (acting # Null /\ acting.moved) =>
        ret = NextActiveAfter(TableOfStreet(acting.street), acting.slot)

\* C6: moveToNextPlayer(street) raises the street's cursor by one and returns
\* what getCurrentPlayer(street) returns afterwards, which is the active slot
\* that follows the previously current one in cyclic priority order; with k >= 1
\* active slots and the statuses left alone, the next k calls return each active
\* slot once and the k-th returns the player that is current now.
C6_MoveToNextPlayer ==
    /\ [](\A s \in Streets :
            LET act == ActiveOf(TableOfStreet(s))
                k == Cardinality(act)
                c == currentActionIndex[s].value
            IN k >= 1 =>
                 /\ {PlayerAt(s, Num(c + j)) : j \in 1..k} = act
                 /\ PlayerAt(s, Num(c + k)) = getCurrentPlayer(s))
    /\ [][\A s \in Streets :
            moveToNextPlayer(s) =>
                /\ currentActionIndex'[s] = Num(currentActionIndex[s].value + 1)
                /\ ret' = getCurrentPlayer(s)'
                /\ ret' = IF getCurrentPlayer(s) = Null THEN Null
                          ELSE NextActiveAfter(TableOfStreet(s), getCurrentPlayer(s))]_vars

C6_Witness ==
    /\ ValidHand
    /\ currentActionIndex["preflop"] = Num(2)
    /\ Len(absoluteOrder.preflop) = 3
    /\ playerStatus[absoluteOrder.preflop[2].player] = "allin"
    /\ Cardinality(ActiveOf(absoluteOrder.preflop)) = 2
    /\ ret = absoluteOrder.preflop[1]

C8_InitializeHandResetsState ==
    ret = This =>
        /\ handNumber # Null
        /\ \A n \in DOMAIN playerStatus : playerStatus[n] = "active"
        /\ \A s \in Streets : currentActionIndex[s] = Num(0)
        /\ absoluteOrder.preflop = createPreflopOrder(Roster(DealtSeats), buttonPosition)
        /\ absoluteOrder.postflop = createPostflopOrder(Roster(DealtSeats), buttonPosition)
        /\ currentStreet = "preflop"

\* the fields a constructor call sets, but for the button seat
FreshButButton ==
    /\ handNumber = Null
    /\ absoluteOrder = [preflop |-> <<>>, postflop |-> <<>>]
    /\ currentStreet = "preflop"
    /\ currentActionIndex = ZeroIndex
    /\ playerStatus = <<>>

\* C9 as claimed: endHand leaves every field, the button seat among them, as
\* the constructor sets it.
C9_EndHandRestoresFresh ==
    [][endHand => (FreshButButton /\ buttonPosition = 1)']_vars

\* C9 as amended: endHand can be called in every state, and it leaves the hand
\* id, currentStreet, the cursors, the status registry and both order tables
\* as the constructor sets them, and the button seat as it was.
C9_EndHandClears ==
    /\ [](ENABLED endHand)
    /\ [][endHand => (FreshButButton' /\ buttonPosition' = buttonPosition)]_vars

C9_Witness ==
    /\ ret = Undefined
    /\ handNumber = Null
    /\ buttonPosition = 2

\* C10: while no hand is active (after endHand, before the next initializeHand)
\* getCurrentPlayer is null and getActionOrder is empty for every street value,
\* no call of moveToNextPlayer or advanceToStreet has returned a slot, and the
\* tables initializeHand builds are those a fresh engine builds from the same
\* players and button.
C10_NoActiveHand ==
    /\ handNumber = Null =>
          /\ \A s \in StreetKeys : getCurrentPlayer(s) = Null /\ getActionOrder(s) = <<>>
          /\ ~IsSlot(ret)
    /\ ret = This =>
          /\ absoluteOrder.preflop = createPreflopOrder(Roster(DealtSeats), buttonPosition)
          /\ absoluteOrder.postflop = createPostflopOrder(Roster(DealtSeats), buttonPosition)

C10_Witness ==
    /\ handNumber = Null
    /\ buttonPosition = 3
    /\ currentActionIndex["turn"] = Num(1)
    /\ currentStreet = "river"
    /\ ret = Null

----------------------------------------------------------------------------
(* Properties of the street change, the frame of the methods and the       *)
(* position labels.                                                        *)

\* the first active slot of a table in priority order, null when there is none
FirstActive(table) ==
    IF ActiveOf(table) = {} THEN Null ELSE LowestPriority(ActiveOf(table))

\* C11: advanceToStreet(s), called at any point of a hand, sets currentStreet to
\* s, sets the cursor of s to 0 and leaves every other cursor as it was, and
\* returns the first active slot in priority order of the postflop table for
\* flop, turn and river (the SB slot when SB is active) and of the preflop table
\* for preflop; it returns null when no slot is active.
C11_AdvanceToStreet ==
    [][\A s \in Streets :
          advanceToStreet(s) =>
              /\ currentStreet' = s
              /\ currentActionIndex'[s] = Num(0)
              /\ \A t \in StreetKeys \ {s} : currentActionIndex'[t] = currentActionIndex[t]
              /\ ret' = FirstActive(TableOfStreet(s))
              /\ (s # "preflop" /\ ValidHand
                    /\ playerStatus[absoluteOrder.postflop[1].player] = "active")
                  => ret'.position = "SB"]_vars

C11_Witness ==
    /\ ValidHand
    /\ currentStreet = "turn"
    /\ currentActionIndex["turn"] = Num(0)
    /\ currentActionIndex["flop"] = Num(1)
    /\ Len(absoluteOrder.postflop) = 3
    /\ playerStatus[absoluteOrder.postflop[1].player] = "folded"
    /\ playerStatus[absoluteOrder.postflop[2].player] = "active"
    /\ ret = absoluteOrder.postflop[2]

\* a step made within a hand by a call other than initializeHand and endHand
StepWithinHand == handNumber # Null /\ handNumber' # Null /\ ret' # This

\* C12: between one initializeHand and the next initializeHand or endHand no
\* call of updatePlayerStatus, moveToNextPlayer, advanceToStreet,
\* getCurrentPlayer, getActionOrder or isBettingRoundComplete changes an order
\* table: both tables stay exactly as initializeHand built them from the
\* players and the button, also when players fold or go all-in.
C12_TablesFixed ==
    /\ [](handNumber # Null =>
            /\ absoluteOrder.preflop = createPreflopOrder(Roster(DealtSeats), buttonPosition)
            /\ absoluteOrder.postflop = createPostflopOrder(Roster(DealtSeats), buttonPosition))
    /\ [][StepWithinHand => absoluteOrder' = absoluteOrder]_vars

C12_Witness ==
    /\ ValidHand
    /\ Len(absoluteOrder.preflop) = 2
    /\ Len(absoluteOrder.postflop) = 2
    /\ playerStatus[absoluteOrder.preflop[1].player] = "folded"
    /\ playerStatus[absoluteOrder.preflop[2].player] = "allin"
    /\ currentStreet = "flop"
    /\ currentActionIndex["flop"] = Num(1)
    /\ IsArr(ret)

\* C13: in every state between initializeHand(P, ...) and the next endHand or
\* initializeHand the players of the status registry are exactly the names in
\* P, whatever updatePlayerStatus, moveToNextPlayer and advanceToStreet calls
\* are made with whatever arguments, and right after initializeHand every one
\* of them is active.
C13_RegistryIsTheHand ==
    /\ acting # Null => DOMAIN playerStatus = acting.names
    /\ ret = This => \A n \in DOMAIN playerStatus : playerStatus[n] = "active"

\* a hand has been started with a button seat that is the seat of no dealt player
StrayButton == handNumber # Null /\ buttonPosition \notin DealtSeats

\* C14: initializeHand with a button seat that is not a seat of the players
\* completes (it returns the engine) and leaves both order tables empty, and
\* until the next initializeHand getCurrentPlayer is null and getActionOrder is
\* empty for every street value and no call of moveToNextPlayer or
\* advanceToStreet has returned a slot, although the registry lists the players,
\* all active right after initializeHand.
C14_StrayButtonGivesEmptyTables ==
    StrayButton =>
        /\ absoluteOrder = [preflop |-> <<>>, postflop |-> <<>>]
        /\ \A s \in StreetKeys : getCurrentPlayer(s) = Null /\ getActionOrder(s) = <<>>
        /\ ret \in {This, Null} \/ IsNum(ret)
        /\ Cardinality(DOMAIN playerStatus) >= 2
        /\ ret = This => \A n \in DOMAIN playerStatus : playerStatus[n] = "active"

C14_Witness ==
    /\ StrayButton
    /\ buttonPosition = 3
    /\ \E n \in DOMAIN playerStatus : playerStatus[n] = "active"
    /\ currentActionIndex["flop"] = Num(1)
    /\ currentStreet = "turn"
    /\ ret = Null

\* a step that is a call of one of the three methods that only read: a boolean
\* is returned by isBettingRoundComplete alone and an array by getActionOrder alone
QueryCall ==
    \/ IsBool(ret')
    \/ IsArr(ret')
    \/ \E s \in StreetKeys : callGetCurrentPlayer(s)

\* C15: getActionOrder(street) returns one entry per slot of the selected table,
\* in table order, each with the slot's player, seat, position and priority, the
\* player's current registry status as status, and canAct true exactly when that
\* status is active; getActionOrder, getCurrentPlayer and isBettingRoundComplete
\* leave the cursors, the registry, currentStreet and both tables unchanged.
C15_ActionOrderIsReadOnlyProjection ==
    /\ [](\A s \in StreetKeys :
            LET table == TableOfStreet(s)
                order == getActionOrder(s)
            IN /\ Len(order) = Len(table)
               /\ \A k \in 1..Len(table) :
                     /\ DOMAIN order[k] = {"player", "seat", "position", "priority",
                                           "status", "canAct"}
                     /\ order[k].player = table[k].player
                     /\ order[k].seat = table[k].seat
                     /\ order[k].position = table[k].position
                     /\ order[k].priority = table[k].priority
                     /\ order[k].status = playerStatus[table[k].player]
                     /\ order[k].canAct = (playerStatus[table[k].player] = "active"))
    /\ [][IsArr(ret') => \E s \in StreetKeys : ret' = Arr(getActionOrder(s))]_vars
    /\ [][QueryCall =>
            /\ currentActionIndex' = currentActionIndex
            /\ playerStatus' = playerStatus
            /\ currentStreet' = currentStreet
            /\ absoluteOrder' = absoluteOrder]_vars

C15_Witness ==
    /\ ValidHand
    /\ IsArr(ret)
    /\ Len(ret.value) = 2
    /\ ret.value[1].status = "allin"
    /\ ~ret.value[1].canAct
    /\ ret.value[2].status = "active"
    /\ ret.value[2].canAct
    /\ currentActionIndex[currentStreet] = Num(1)

\* the fixed precedence of the labels, the first match winning
LabelRule(i, N) ==
    IF i = 0 THEN "SB"
    ELSE IF i = 1 THEN "BB"
    ELSE IF i = N - 1 THEN "BTN"
    ELSE IF i = 2 THEN "UTG"
    ELSE IF i = 3 THEN "UTG+1"
    ELSE IF i = 4 THEN "MP1"
    ELSE IF i = 5 THEN "MP2"
    ELSE IF i = N - 2 THEN "CO"
    ELSE "MP" \o ToString(i - 2)

\* the labels of the relative indices 0..N-1 for the table sizes 2..8, written out
LabelRows ==
    << <<"SB">>,
       <<"SB", "BB">>,
       <<"SB", "BB", "BTN">>,
       <<"SB", "BB", "UTG", "BTN">>,
       <<"SB", "BB", "UTG", "UTG+1", "BTN">>,
       <<"SB", "BB", "UTG", "UTG+1", "MP1", "BTN">>,
       <<"SB", "BB", "UTG", "UTG+1", "MP1", "MP2", "BTN">>,
       <<"SB", "BB", "UTG", "UTG+1", "MP1", "MP2", "CO", "BTN">> >>

\* the label a table gives to the player of a seat
LabelIn(table, seat) ==
    table[CHOOSE k \in 1..Len(table) : table[k].seat = seat].position

\* C16: for every N >= 2 and valid button the player at relative index i, the
\* seat at sorted position (buttonIndex + i + 1) mod N, is labelled by the first
\* match of i=0 SB, i=1 BB, i=N-1 BTN, i=2 UTG, i=3 UTG+1, i=4 MP1, i=5 MP2,
\* i=N-2 CO, otherwise MP(i-2), with the same label in both tables; for N = 2
\* the seat after the button is SB, the button seat is BB and no slot is BTN;
\* seats [1,3,5,7] with button 7 give seat 1 SB, seat 3 BB, seat 5 UTG, seat 7 BTN.
C16_PositionLabels ==
    ValidHand =>
        LET N == Cardinality(DealtSeats)
            sorted == SortAscending(DealtSeats)
            buttonIndex == CHOOSE j \in 0..(N - 1) : sorted[j + 1] = buttonPosition
            SeatAt(i) == sorted[((buttonIndex + i + 1) % N) + 1]
            pre == absoluteOrder.preflop
            post == absoluteOrder.postflop
        IN /\ \A i \in 0..(N - 1) :
                 /\ SeatAt(i) = Rotation(DealtSeats, buttonPosition, N)[i + 1]
                 /\ LabelIn(pre, SeatAt(i)) = LabelRule(i, N)
                 /\ LabelIn(post, SeatAt(i)) = LabelRule(i, N)
                 /\ N <= Len(LabelRows) => LabelRule(i, N) = LabelRows[N][i + 1]
           /\ N = 2 =>
                 /\ LabelIn(post, ClockwiseNext(DealtSeats, buttonPosition)) = "SB"
                 /\ LabelIn(pre, ClockwiseNext(DealtSeats, buttonPosition)) = "SB"
                 /\ LabelIn(post, buttonPosition) = "BB"
                 /\ LabelIn(pre, buttonPosition) = "BB"
                 /\ \A k \in 1..2 : pre[k].position # "BTN" /\ post[k].position # "BTN"
           /\ (DealtSeats = {1, 3, 5, 7} /\ buttonPosition = 7) =>
                 \A t \in {pre, post} :
                     /\ LabelIn(t, 1) = "SB"
                     /\ LabelIn(t, 3) = "BB"
                     /\ LabelIn(t, 5) = "UTG"
                     /\ LabelIn(t, 7) = "BTN"

C16_Witness ==
    /\ ValidHand
    /\ Len(absoluteOrder.postflop) = 9
    /\ absoluteOrder.postflop[7].position = "MP4"
    /\ absoluteOrder.postflop[8].position = "CO"
    /\ absoluteOrder.preflop[5].position = "MP4"
    /\ buttonPosition = 4

\* C17: a street value outside the four streets is looked up in the postflop
\* table by every operation: getActionOrder returns the postflop projection for
\* it, and getCurrentPlayer and moveToNextPlayer return an active slot of the
\* postflop table whenever one is active and null only when none is, as they do
\* for the flop.
C17_OtherStreetIsPostflop ==
    LET act == ActiveOf(absoluteOrder.postflop)
    IN /\ getActionOrder(OtherStreet) = getActionOrder("flop")
       /\ IsSlot(getCurrentPlayer("flop")) <=> act # {}
       /\ IF act = {} THEN getCurrentPlayer(OtherStreet) = Null
          ELSE getCurrentPlayer(OtherStreet) \in act

PostflopStreets == {"flop", "turn", "river"}

\* C18: flop, turn and river share the postflop table and differ only in their
\* cursors: getActionOrder returns the same sequence for the three, which has
\* the slots of the postflop table, getCurrentPlayer returns the same slot for
\* any two of them whose cursors are equal, and moveToNextPlayer(s) and
\* advanceToStreet(s) change the cursor of no street other than s.
C18_PostflopStreetsShareTable ==
    /\ [](LET order == getActionOrder("flop")
          IN /\ [k \in 1..Len(order) |-> order[k].player]
                  = [k \in 1..Len(absoluteOrder.postflop) |-> absoluteOrder.postflop[k].player]
             /\ \A s \in PostflopStreets :
                   /\ getActionOrder(s) = order
                   /\ \A t \in PostflopStreets :
                         currentActionIndex[s] = currentActionIndex[t]
                             => getCurrentPlayer(s) = getCurrentPlayer(t))
    /\ [][\A s \in Streets :
            \/ \A t \in StreetKeys \ {s} : currentActionIndex'[t] = currentActionIndex[t]
            \/ ~(moveToNextPlayer(s) \/ advanceToStreet(s))]_vars

C18_Witness ==
    /\ ValidHand
    /\ Len(absoluteOrder.postflop) = 3
    /\ absoluteOrder.preflop # absoluteOrder.postflop
    /\ currentActionIndex["flop"] = Num(1)
    /\ currentActionIndex["turn"] = Num(1)
    /\ currentActionIndex["river"] = Num(0)
    /\ playerStatus[absoluteOrder.postflop[1].player] = "folded"
    /\ getCurrentPlayer("flop") = absoluteOrder.postflop[3]
    /\ getCurrentPlayer("turn") = absoluteOrder.postflop[3]
    /\ getCurrentPlayer("river") = absoluteOrder.postflop[2]

\* C19: whose turn it is changes only through moveToNextPlayer, advanceToStreet,
\* initializeHand or endHand: within a hand, updatePlayerStatus(q, folded or
\* allin) for a player q other than the one getCurrentPlayer(street) returns
\* leaves the result of getCurrentPlayer(street) as it was, for every street and
\* every cursor value.
C19_StatusChangeKeepsTurn ==
    [][\A s \in Streets, q \in DOMAIN playerStatus, st \in {"folded", "allin"} :
          (/\ updatePlayerStatus(q, st)
           /\ IsSlot(getCurrentPlayer(s)) => getCurrentPlayer(s).player # q)
          => getCurrentPlayer(s)' = getCurrentPlayer(s)]_vars

\* the player, seat and position of a slot
Triple(p) == <<p.player, p.seat, p.position>>

\* C20: for every N >= 2 and valid button the preflop table is the postflop
\* table rotated left by two slots: preflop slot k has the player, seat and
\* position of postflop slot (k + 2) mod N, the two tables hold the same set of
\* (player, seat, position) triples, and the position labels of a table are
\* pairwise distinct.
C20_PreflopIsRotatedPostflop ==
    ValidHand =>
        LET N == Cardinality(DealtSeats)
            pre == absoluteOrder.preflop
            post == absoluteOrder.postflop
        IN /\ Len(pre) = N
           /\ Len(post) = N
           /\ \A k \in 0..(N - 1) : Triple(pre[k + 1]) = Triple(post[((k + 2) % N) + 1])
           /\ {Triple(pre[k]) : k \in 1..N} = {Triple(post[k]) : k \in 1..N}
           /\ \A j, k \in 1..N :
                 j # k => /\ pre[j].position # pre[k].position
                          /\ post[j].position # post[k].position

C20_Witness ==
    /\ ValidHand
    /\ Len(absoluteOrder.preflop) = 7
    /\ absoluteOrder.preflop[1].position = "UTG"
    /\ absoluteOrder.preflop[6].position = "SB"
    /\ absoluteOrder.postflop[1].position = "SB"
    /\ Triple(absoluteOrder.preflop[1]) = Triple(absoluteOrder.postflop[3])
    /\ absoluteOrder.preflop[1].priority # absoluteOrder.postflop[3].priority

----------------------------------------------------------------------------
(* Properties of the compatibility object and of the Apps Script backend.  *)

\* the given players whose status in the registry of the engine is active
EngineActivePlayers(players) ==
    LET Active(p) == StatusOf(p.name) = "active"
    IN Arr(SelectSeq(players, Active))

\* a step that is a call of a method of window.actionManager
ShimCall == UNCHANGED fields /\ actionManager' = actionManager /\ ret' # ret

\* C21: window.actionManager presents the live state of the engine after any
\* sequence of engine operations: a call of calculateActionOrder(street) returns
\* what getActionOrder(street) of the engine returns, and a call of
\* getActivePlayers(players) returns exactly the given players whose status in
\* the registry of the engine is active.
C21_ShimShowsEngineState ==
    [][ShimCall =>
           /\ \A s \in StreetKeys :
                 ret' = calculateActionOrder(s) => ret' = Arr(getActionOrder(s))
           /\ \A players \in ShimRosters :
                 ret' = getActivePlayers(players) => ret' = EngineActivePlayers(players)]_vars

\* the columns of a row of the sheet
PlayerOf(row) == row[TYPE_COLUMNS.PLAYER + 1]
TableOf(row) == row[TYPE_COLUMNS.TABLE + 1]
UpdatedAtOf(row) == row[TYPE_COLUMNS.UPDATED_AT + 1]
IsIn(row) == Len(row) > TYPE_COLUMNS.STATUS /\ row[TYPE_COLUMNS.STATUS + 1] = Str("IN")

\* the (table, player) pair of a row and the numbers of the IN rows of a pair
PairOf(row) == <<TableOf(row), PlayerOf(row)>>
Pairs(rows) == {PairOf(rows[i]) : i \in 2..Len(rows)}
InRows(rows, pair) == {i \in 2..Len(rows) : IsIn(rows[i]) /\ PairOf(rows[i]) = pair}

\* the rows without those of the numbers D
Without(rows, D) ==
    LET kept == SortAscending((1..Len(rows)) \ D)
    IN [j \in 1..Len(kept) |-> rows[kept[j]]]

\* after is before without the surplus IN rows: of the IN rows of each pair one
\* with the latest UpdatedAt is left and no other row is taken away
SurplusRemoved(before, after) ==
    \E D \in SUBSET (2..Len(before)) :
        /\ after = Without(before, D)
        /\ \A i \in D : IsIn(before[i])
        /\ \A pair \in Pairs(before) :
              LET R == InRows(before, pair)
              IN R # {} =>
                    \E k \in R :
                        /\ R \ D = {k}
                        /\ \A j \in R : TimeOf(UpdatedAtOf(before[k])) >=
                                        TimeOf(UpdatedAtOf(before[j]))

\* a step in which removeDuplicatePlayersOptimized returns with success
CleanupReturns ==
    /\ ret'.type = "result"
    /\ "duplicates" \in DOMAIN ret'.value
    /\ ret'.value.success

\* C22: after a successful removeDuplicatePlayersOptimized(false) every (table,
\* player) pair has at most one IN row in the Type sheet, the row left is one
\* with the latest UpdatedAt among the IN rows of the pair, every other row (the
\* header, the rows that are not IN, the rows of other pairs) is still there
\* unchanged, and the batched deletion in descending order takes away exactly
\* the rows findDuplicates selected.
C22_FullCleanupRemovesSurplus ==
    [][CleanupReturns =>
           /\ SurplusRemoved(sheet, sheet')
           /\ sheet' = Without(sheet, findDuplicates(refresh(getValues(sheet))))]_vars

\* the part of C22 about the batched deletion alone
BatchedDeletionIsExact ==
    [][CleanupReturns =>
           sheet' = Without(sheet, findDuplicates(refresh(getValues(sheet))))]_vars

\* every row taken away between before and after is an IN row whose pair keeps,
\* in after, an IN row that is not older
OnlySurplusRemoved(before, after) ==
    \E D \in SUBSET (2..Len(before)) :
        /\ after = Without(before, D)
        /\ \A i \in D :
              /\ IsIn(before[i])
              /\ \E k \in InRows(before, PairOf(before[i])) \ D :
                    TimeOf(UpdatedAtOf(before[k])) >= TimeOf(UpdatedAtOf(before[i]))

\* a step in which checkDuplicateForPlayer(p, CacheTable) returns
CheckReturns(p) ==
    /\ ret' = CheckDuplicate(sheet, playerCache, Str(p), Str(CacheTable)).ret
    /\ playerCache' = CheckDuplicate(sheet, playerCache, Str(p), Str(CacheTable)).playerCache
    /\ sheet' = sheet

\* C23: in any interleaving of sheet edits and cleanup calls, every row deleted
\* by removeDuplicatePlayersOptimized, incremental or not, is at the time of the
\* call a surplus IN row of a (table, player) pair of the sheet, and
\* checkDuplicateForPlayer reports isDuplicate exactly when the sheet holds more
\* than one IN row of the pair: a cache within its lifetime never makes the
\* cleanup act on rows or counts that no longer match the sheet.
C23_CacheMatchesSheet ==
    [][/\ CleanupReturns => OnlySurplusRemoved(sheet, sheet')
       /\ \A p \in CachePlayers :
             CheckReturns(p) =>
                 (ret'.value.isDuplicate <=>
                      Cardinality(InRows(sheet, <<Str(CacheTable), Str(p)>>)) > 1)]_vars

\* the sheet holds a row that batchUpdatePlayersOptimized appended for the player
AppendedBefore(tableName, player) ==
    \E i \in 2..Len(sheet), now \in BatchTimes : sheet[i] = NewRow(tableName, player, now)

\* a step that is the call batchUpdatePlayersOptimized(CacheTable, players, [])
BatchReturns(players, now) ==
    LET r == BatchUpdate(sheet, playerCache, Str(CacheTable), players, <<>>, now)
    IN /\ ret' = r.ret
       /\ playerCache' = r.playerCache
       /\ sheet' \in sortTypeSheet(r.sheet)

\* C24: a row appended by batchUpdatePlayersOptimized(table, players, []) is found
\* as the IN row of its player by the next call for the same table and player:
\* the call updates the row in place and appends nothing, so that repeating the
\* call leaves the number of rows of the Type sheet unchanged.
C24_AppendedRowIsFound ==
    [][\A players \in BatchPlayers, now \in BatchTimes :
          (/\ \A j \in 1..Len(players) : AppendedBefore(Str(CacheTable), players[j])
           /\ BatchReturns(players, now))
          => /\ ret'.value.added = 0
             /\ ret'.value.updated = Len(players)
             /\ Len(sheet') = Len(sheet)]_vars

====
